---- MODULE Spec2Model ----
(***************************************************************************)
(* Model of comprehensive_error_analysis.py: the line scanner of          *)
(* parse_interface_data, its inclusion filters and ratio computation, the  *)
(* three report views and the network-wide totals, and main.               *)
(*                                                                         *)
(* TEXT.  A line (after line.strip()) is a sequence of tokens.  A token    *)
(* is a record [k, v]; k names the piece of text and v is its number:      *)
(*   "hdr"       "Gi0/<v> is up"  (an interface name followed by is up)    *)
(*   "num"       the decimal digits of v                                   *)
(*   "in_rate"   "5 minute input rate "                                    *)
(*   "out_rate"  "5 minute output rate "                                   *)
(*   "pps"       " packets/sec"                                            *)
(*   "pkts_in"   " packets input, "     "drops_in"  " total input drops"   *)
(*   "pkts_out"  " packets output, "    "drops_out" " total output drops"  *)
(*   "in_err"    " input errors, "      "crc"       " CRC, "               *)
(*   "frame"     " frame, "             "overrun"   " overrun, "           *)
(*   "ignored"   " ignored, "           "abort"     " abort"               *)
(*   "out_err"   " output errors, "     "underruns" " underruns"           *)
(*   "text"      any other text without digits that holds ", ", e.g.       *)
(*               " bits/sec, " or ", line protocol is up, "                *)
(* No line holds two adjacent "num" tokens, so every number of the text   *)
(* is one token and \d+ captures a whole token.  line.strip() removes the  *)
(* leading space of the first token's text: a line that starts with the   *)
(* token "pps" starts with "packets/sec".                                  *)
(*                                                                         *)
(* NAMES.  An interface name is the text group(1) of the header pattern    *)
(* captures: the sequence of the tokens it spans, the last of them the     *)
(* "hdr" token, which stands there for its part "Gi0/<v>".                 *)
(*                                                                         *)
(* FLOATS.  A ratio is the float (a / b) * 100 of two integers.  It is     *)
(* modelled by the exact fraction [n |-> a * 100, d |-> b].  For the       *)
(* integers of this model (below 2^20) IEEE double rounding is monotone    *)
(* and keeps different fractions apart, and (k / (1000 * k)) * 100 is the  *)
(* double 0.1 itself (likewise 1.0, 0.01 and 0.001), so ">" on the floats  *)
(* and ">" on the fractions agree, also at the thresholds.                 *)
(***************************************************************************)
EXTENDS Integers, Sequences, FiniteSets

VARIABLES
    file,               \* what open()/readlines() will do: "ok", "missing", "unreadable"
    lines,              \* the lines of the input file
    pc,                 \* position in main / parse_interface_data
    idx,                \* index of the next line of `for line in lines`
    current_interface,  \* None, or the name of the last header scanned
    interface_stats,    \* the dict name -> counters, as its items in insertion order
    fidx,               \* index of the next item of `for name, data in interface_stats.items()`
    interfaces,         \* the list parse_interface_data is building
    exc,                \* the except clause that ran: "none", "FileNotFoundError", "Exception"
    main_interfaces,    \* main's variable interfaces: what parse_interface_data returned
    called,             \* the report views main has called, in order
    top_10,             \* print_top_10_analysis: rows <<record, status>>
    top_5_output,       \* print_top_5_output_errors: rows <<record, status>>
    all_sorted,         \* print_complete_analysis: rows <<record, classification>>
    totals              \* print_complete_analysis: the network-wide statistics

vars == <<file, lines, pc, idx, current_interface, interface_stats, fidx,
          interfaces, exc, main_interfaces, called, top_10, top_5_output,
          all_sorted, totals>>

parse_vars == <<idx, current_interface, interface_stats, fidx, interfaces>>
view_vars == <<top_10, top_5_output, all_sorted, totals>>

----------------------------------------------------------------------------
(* Bounds of the model *)

\* ShortTexts: every text of at most MaxLines lines over LineSet
MaxLines == 3
\* BlockTexts: every text of at most MaxBlocks interface blocks
MaxBlocks == 3

\* current_interface = None: no name is the empty text
None == <<>>

----------------------------------------------------------------------------
(* Tokens and lines *)

Tok(k, v) == [k |-> k, v |-> v]
Num(n) == Tok("num", n)
Lit(k) == Tok(k, 0)

Min(S) == CHOOSE x \in S : \A y \in S : x <= y

\* "Gi0/<name> is up, line protocol is up"
HeaderLine(name) == <<Tok("hdr", name), Lit("text")>>
\* "5 minute input rate 8000 bits/sec, <n> packets/sec"
InputRateLine(n) == <<Lit("in_rate"), Num(8000), Lit("text"), Num(n), Lit("pps")>>
\* "5 minute output rate 8000 bits/sec, <n> packets/sec"
OutputRateLine(n) == <<Lit("out_rate"), Num(8000), Lit("text"), Num(n), Lit("pps")>>
\* "<n> packets input, 64000 bytes, <m> total input drops"
PacketsInputLine(n, m) ==
    <<Num(n), Lit("pkts_in"), Num(64000), Lit("text"), Num(m), Lit("drops_in")>>
\* "<n> packets output, 64000 bytes, <m> total output drops"
PacketsOutputLine(n, m) ==
    <<Num(n), Lit("pkts_out"), Num(64000), Lit("text"), Num(m), Lit("drops_out")>>
\* "<a> input errors, <b> CRC, <c> frame, <d> overrun, <e> ignored, <f> abort"
InputErrorsLine(a, b, c, d, e, f) ==
    <<Num(a), Lit("in_err"), Num(b), Lit("crc"), Num(c), Lit("frame"),
      Num(d), Lit("overrun"), Num(e), Lit("ignored"), Num(f), Lit("abort")>>
\* "<a> output errors, <b> underruns, 0 applique, 0 resets"
OutputErrorsLine(a, b) ==
    <<Num(a), Lit("out_err"), Num(b), Lit("underruns"), Lit("text")>>

----------------------------------------------------------------------------
(* The regular expressions.  A match is the sequence of its captured       *)
(* groups; NoMatch is re's None.                                           *)

NoMatch == <<>>

\* a number immediately followed by the text k, at position i
PairAt(line, i, k) ==
    /\ i >= 1
    /\ i + 1 <= Len(line)
    /\ line[i].k = "num"
    /\ line[i + 1].k = k

\* leftmost position >= from of a number followed by k (0: none): where the
\* lazy .*? stops
FirstPairFrom(line, from, k) ==
    LET S == {i \in from..Len(line) : PairAt(line, i, k)}
    IN IF S = {} THEN 0 ELSE Min(S)

\* the texts that, at the start of a stripped line, are a letter followed by
\* characters of [A-Za-z0-9\-\.\/] only: "packets/sec", "abort", "underruns"
NameStartKinds == {"pps", "abort", "underruns"}

\* the position of the "hdr" token the header pattern matches at the start of
\* the line (0: none): the first token, or one behind a text of NameStartKinds
\* and digits, which [A-Za-z][A-Za-z0-9\-\.\/]+ takes into the name with it
HeaderEnd(line) ==
    IF Len(line) = 0 THEN 0
    ELSE IF line[1].k = "hdr" THEN 1
    ELSE IF line[1].k \notin NameStartKinds THEN 0
    ELSE LET R == {h \in 2..Len(line) : line[h].k # "num"}
         IN IF R # {} /\ line[Min(R)].k = "hdr" THEN Min(R) ELSE 0

\* re.match(r'^([A-Za-z][A-Za-z0-9\-\.\/]+)\s+is\s+(up|down)', line): anchored at
\* the start of the line; group(1) is the name
interface_match(line) ==
    IF HeaderEnd(line) = 0 THEN NoMatch ELSE <<SubSeq(line, 1, HeaderEnd(line))>>

\* re.search(r'<label>.*?(\d+) packets/sec', line)
RateSearch(line, label) ==
    LET L == {i \in 1..Len(line) : line[i].k = label}
    IN IF L = {} THEN NoMatch
       ELSE LET j == FirstPairFrom(line, Min(L) + 1, "pps")
            IN IF j = 0 THEN NoMatch ELSE <<line[j].v>>

input_rate_match(line) == RateSearch(line, "in_rate")
output_rate_match(line) == RateSearch(line, "out_rate")

\* re.search(r'(\d+) <packets>.*?(\d+) <drops>', line)
PacketsSearch(line, packets, drops) ==
    LET i == FirstPairFrom(line, 1, packets)
    IN IF i = 0 THEN NoMatch
       ELSE LET j == FirstPairFrom(line, i + 2, drops)
            IN IF j = 0 THEN NoMatch ELSE <<line[i].v, line[j].v>>

input_packets_match(line) == PacketsSearch(line, "pkts_in", "drops_in")
output_packets_match(line) == PacketsSearch(line, "pkts_out", "drops_out")

\* the numbers at i, i+2, ... each followed by the next text of labels
RunAt(line, i, labels) ==
    \A n \in 1..Len(labels) : PairAt(line, i + 2 * (n - 1), labels[n])

\* re.search of a pattern with no wildcard: numbers and texts in a row
RunSearch(line, labels) ==
    LET S == {i \in 1..Len(line) : RunAt(line, i, labels)}
    IN IF S = {} THEN NoMatch
       ELSE [n \in 1..Len(labels) |-> line[Min(S) + 2 * (n - 1)].v]

error_match(line) ==
    RunSearch(line, <<"in_err", "crc", "frame", "overrun", "ignored", "abort">>)
output_error_match(line) == RunSearch(line, <<"out_err", "underruns">>)

----------------------------------------------------------------------------
(* The dict interface_stats: items in insertion order *)

NewStats(name) ==
    [name |-> name, input_packets |-> 0, output_packets |-> 0,
     input_rate |-> 0, output_rate |-> 0, input_errors |-> 0,
     crc_errors |-> 0, frame_errors |-> 0, overrun_errors |-> 0,
     ignored_errors |-> 0, abort_errors |-> 0, output_errors |-> 0,
     underruns |-> 0, input_drops |-> 0, output_drops |-> 0]

DictKeys(dict) == {dict[i].name : i \in 1..Len(dict)}
DictIndex(dict, name) == CHOOSE i \in 1..Len(dict) : dict[i].name = name
DictGet(dict, name) == dict[DictIndex(dict, name)]

\* dict[name] = data: a key already present keeps its place
DictSet(dict, name, data) ==
    IF name \in DictKeys(dict)
    THEN [dict EXCEPT ![DictIndex(dict, name)] = data]
    ELSE Append(dict, data)

\* a header line that keeps the record the dict already holds under the name
HeaderRecordKeeping(dict, name) ==
    IF name \in DictKeys(dict) THEN DictGet(dict, name) ELSE NewStats(name)

\* interface_stats[current_interface] = {'name': ..., 'input_packets': 0, ...}: the
\* record a header line stores, whatever the dict held under that name
HeaderRecord(dict, name) == NewStats(name)

\* the chain with the output rate searched before the input rate
ApplyFieldOutputFirst(data, line) ==
    IF output_rate_match(line) # NoMatch
    THEN [data EXCEPT !.output_rate = output_rate_match(line)[1]]
    ELSE IF input_rate_match(line) # NoMatch
    THEN [data EXCEPT !.input_rate = input_rate_match(line)[1]]
    ELSE IF input_packets_match(line) # NoMatch
    THEN [data EXCEPT !.input_packets = input_packets_match(line)[1],
                      !.input_drops = input_packets_match(line)[2]]
    ELSE IF output_packets_match(line) # NoMatch
    THEN [data EXCEPT !.output_packets = output_packets_match(line)[1],
                      !.output_drops = output_packets_match(line)[2]]
    ELSE IF error_match(line) # NoMatch
    THEN [data EXCEPT !.input_errors = error_match(line)[1],
                      !.crc_errors = error_match(line)[2],
                      !.frame_errors = error_match(line)[3],
                      !.overrun_errors = error_match(line)[4],
                      !.ignored_errors = error_match(line)[5],
                      !.abort_errors = error_match(line)[6]]
    ELSE IF output_error_match(line) # NoMatch
    THEN [data EXCEPT !.output_errors = output_error_match(line)[1],
                      !.underruns = output_error_match(line)[2]]
    ELSE data

\* the searches without `continue`: every pattern that matches updates the record
ApplyFieldAll(data, line) ==
    LET d1 == IF input_rate_match(line) # NoMatch
              THEN [data EXCEPT !.input_rate = input_rate_match(line)[1]]
              ELSE data
        d2 == IF output_rate_match(line) # NoMatch
              THEN [d1 EXCEPT !.output_rate = output_rate_match(line)[1]]
              ELSE d1
        d3 == IF input_packets_match(line) # NoMatch
              THEN [d2 EXCEPT !.input_packets = input_packets_match(line)[1],
                              !.input_drops = input_packets_match(line)[2]]
              ELSE d2
        d4 == IF output_packets_match(line) # NoMatch
              THEN [d3 EXCEPT !.output_packets = output_packets_match(line)[1],
                              !.output_drops = output_packets_match(line)[2]]
              ELSE d3
        d5 == IF error_match(line) # NoMatch
              THEN [d4 EXCEPT !.input_errors = error_match(line)[1],
                              !.crc_errors = error_match(line)[2],
                              !.frame_errors = error_match(line)[3],
                              !.overrun_errors = error_match(line)[4],
                              !.ignored_errors = error_match(line)[5],
                              !.abort_errors = error_match(line)[6]]
              ELSE d4
    IN IF output_error_match(line) # NoMatch
       THEN [d5 EXCEPT !.output_errors = output_error_match(line)[1],
                       !.underruns = output_error_match(line)[2]]
       ELSE d5

\* the chain of searches of the loop body: the first that matches updates the
\* record and the line is done (`continue`)
ApplyField(data, line) ==
    IF input_rate_match(line) # NoMatch
    THEN [data EXCEPT !.input_rate = input_rate_match(line)[1]]
    ELSE IF output_rate_match(line) # NoMatch
    THEN [data EXCEPT !.output_rate = output_rate_match(line)[1]]
    ELSE IF input_packets_match(line) # NoMatch
    THEN [data EXCEPT !.input_packets = input_packets_match(line)[1],
                      !.input_drops = input_packets_match(line)[2]]
    ELSE IF output_packets_match(line) # NoMatch
    THEN [data EXCEPT !.output_packets = output_packets_match(line)[1],
                      !.output_drops = output_packets_match(line)[2]]
    ELSE IF error_match(line) # NoMatch
    THEN [data EXCEPT !.input_errors = error_match(line)[1],
                      !.crc_errors = error_match(line)[2],
                      !.frame_errors = error_match(line)[3],
                      !.overrun_errors = error_match(line)[4],
                      !.ignored_errors = error_match(line)[5],
                      !.abort_errors = error_match(line)[6]]
    ELSE IF output_error_match(line) # NoMatch
    THEN [data EXCEPT !.output_errors = output_error_match(line)[1],
                      !.underruns = output_error_match(line)[2]]
    ELSE data

----------------------------------------------------------------------------
(* Ratios: comparisons of the floats, on the fractions that model them *)

Frac(n, d) == [n |-> n, d |-> d]
RatGt(r, s) == r.n * s.d > s.n * r.d
RatEq(r, s) == r.n * s.d = s.n * r.d
Zero == Frac(0, 1)

\* an insertion in front of the elements with an equal key: not stable
InsertPlaceBeforeEqual(sorted, x, field) ==
    Cardinality({i \in 1..Len(sorted) : RatGt(sorted[i][field], x[field])})

\* sorted(seq, key=lambda x: x.<field>, reverse=True) puts x into the sorted
\* list behind every element whose key is not smaller: equal keys keep their
\* order (a stable sort, also in reverse)
InsertPlace(sorted, x, field) ==
    Cardinality({i \in 1..Len(sorted) : ~RatGt(x[field], sorted[i][field])})

Insert(sorted, x, field) ==
    LET p == InsertPlace(sorted, x, field)
    IN SubSeq(sorted, 1, p) \o <<x>> \o SubSeq(sorted, p + 1, Len(sorted))

RECURSIVE SortedReverse(_, _)
SortedReverse(seq, field) ==
    IF seq = <<>> THEN <<>>
    ELSE Insert(SortedReverse(SubSeq(seq, 1, Len(seq) - 1), field),
                seq[Len(seq)], field)

\* seq[:n]
Take(seq, n) == SubSeq(seq, 1, IF Len(seq) < n THEN Len(seq) ELSE n)

RECURSIVE SumField(_, _)
SumField(seq, field) ==
    IF seq = <<>> THEN 0 ELSE Head(seq)[field] + SumField(Tail(seq), field)

----------------------------------------------------------------------------
(* The metrics of one interface (the body of the second loop) *)

RateThreshold == 100000

Max(a, b) == IF a >= b THEN a ELSE b

total_packets(data) == data.input_packets + data.output_packets
\* the sum of the two rates instead of the larger one
max_rate_sum(data) == data.input_rate + data.output_rate
max_rate(data) == Max(data.input_rate, data.output_rate)

\* a / b if b > 0 else 0: a fraction, not a percentage
PctNoScale(a, b) == IF b > 0 THEN Frac(a, b) ELSE Zero

\* (a / b) * 100 if b > 0 else 0
Pct(a, b) == IF b > 0 THEN Frac(a * 100, b) ELSE Zero

error_crc_sum(data) == data.input_errors + data.crc_errors

\* InterfaceData(...): the raw counters and the derived fields
MakeInterfaceData(data) ==
    [name |-> data.name,
     input_packets |-> data.input_packets,
     output_packets |-> data.output_packets,
     total_packets |-> total_packets(data),
     input_rate |-> data.input_rate,
     output_rate |-> data.output_rate,
     input_errors |-> data.input_errors,
     crc_errors |-> data.crc_errors,
     frame_errors |-> data.frame_errors,
     overrun_errors |-> data.overrun_errors,
     ignored_errors |-> data.ignored_errors,
     abort_errors |-> data.abort_errors,
     output_errors |-> data.output_errors,
     underruns |-> data.underruns,
     input_drops |-> data.input_drops,
     output_drops |-> data.output_drops,
     error_crc_ratio |-> Pct(error_crc_sum(data), data.input_packets),
     error_ratio |-> Pct(data.input_errors, data.input_packets),
     crc_ratio |-> Pct(data.crc_errors, data.input_packets),
     output_error_ratio |-> Pct(data.output_errors, data.output_packets)]

----------------------------------------------------------------------------
(* The report views *)

TopLimit == 10
OutputTopLimit == 5

\* the severity with >= at each threshold
TopStatusInclusive(interface) ==
    IF ~RatGt(Frac(1, 1), interface.error_crc_ratio) THEN "CRITICAL"
    ELSE IF ~RatGt(Frac(1, 10), interface.error_crc_ratio) THEN "HIGH"
    ELSE IF ~RatGt(Frac(1, 100), interface.error_crc_ratio) THEN "MEDIUM"
    ELSE "LOW"

\* the severity of a row of the top 10
TopStatus(interface) ==
    IF RatGt(interface.error_crc_ratio, Frac(1, 1)) THEN "CRITICAL"
    ELSE IF RatGt(interface.error_crc_ratio, Frac(1, 10)) THEN "HIGH"
    ELSE IF RatGt(interface.error_crc_ratio, Frac(1, 100)) THEN "MEDIUM"
    ELSE "LOW"

\* the severity of a row of the top 5 output errors
OutputStatus(interface) ==
    IF RatGt(interface.output_error_ratio, Frac(1, 1)) THEN "CRITICAL"
    ELSE IF RatGt(interface.output_error_ratio, Frac(1, 10)) THEN "HIGH"
    ELSE IF RatGt(interface.output_error_ratio, Frac(1, 100)) THEN "MEDIUM"
    ELSE "LOW"

\* the classification of a row of the complete analysis
Classification(interface) ==
    IF RatGt(interface.error_crc_ratio, Frac(1, 10)) THEN "CRITICAL"
    ELSE IF RatGt(interface.error_crc_ratio, Frac(1, 100)) THEN "HIGH"
    ELSE IF RatGt(interface.error_crc_ratio, Frac(1, 1000)) THEN "MEDIUM"
    ELSE IF interface.input_errors + interface.crc_errors > 0 THEN "LOW"
    ELSE "GOOD"

\* no filter: every record is a candidate of the top 10
all_interfaces(list) == list

\* [i for i in interfaces if i.error_crc_ratio > 0]
problem_interfaces(list) ==
    SelectSeq(list, LAMBDA i : RatGt(i.error_crc_ratio, Zero))
\* [i for i in interfaces if i.output_error_ratio > 0]
output_error_interfaces(list) ==
    SelectSeq(list, LAMBDA i : RatGt(i.output_error_ratio, Zero))

Top10(list) ==
    Take(SortedReverse(problem_interfaces(list), "error_crc_ratio"), TopLimit)
Top5Output(list) ==
    Take(SortedReverse(output_error_interfaces(list), "output_error_ratio"),
         OutputTopLimit)
AllSorted(list) == SortedReverse(list, "error_crc_ratio")

\* the list a view leaves to its caller: sorted() builds a new list
ListAfterView(list) == list

NoTotals ==
    [computed |-> FALSE, total_input_packets |-> 0, total_output_packets |-> 0,
     total_input_errors |-> 0, total_crc_errors |-> 0,
     total_output_errors |-> 0, total_input_drops |-> 0,
     total_output_drops |-> 0, overall_error_crc_ratio |-> Zero]

\* the totals with the overall ratio taken over all packets, input and output
NetworkTotalsAllPackets(list) ==
    [computed |-> TRUE,
     total_input_packets |-> SumField(list, "input_packets"),
     total_output_packets |-> SumField(list, "output_packets"),
     total_input_errors |-> SumField(list, "input_errors"),
     total_crc_errors |-> SumField(list, "crc_errors"),
     total_output_errors |-> SumField(list, "output_errors"),
     total_input_drops |-> SumField(list, "input_drops"),
     total_output_drops |-> SumField(list, "output_drops"),
     overall_error_crc_ratio |->
         Pct(SumField(list, "input_errors") + SumField(list, "crc_errors"),
             SumField(list, "input_packets") + SumField(list, "output_packets"))]

\* sum(i.<field> for i in interfaces) of each counter, and the overall ratio
NetworkTotals(list) ==
    [computed |-> TRUE,
     total_input_packets |-> SumField(list, "input_packets"),
     total_output_packets |-> SumField(list, "output_packets"),
     total_input_errors |-> SumField(list, "input_errors"),
     total_crc_errors |-> SumField(list, "crc_errors"),
     total_output_errors |-> SumField(list, "output_errors"),
     total_input_drops |-> SumField(list, "input_drops"),
     total_output_drops |-> SumField(list, "output_drops"),
     overall_error_crc_ratio |->
         Pct(SumField(list, "input_errors") + SumField(list, "crc_errors"),
             SumField(list, "input_packets"))]

\* the rows a view prints: each record with its status
Top10Rows(list) ==
    [i \in 1..Len(list) |-> [interface |-> list[i], status |-> TopStatus(list[i])]]
Top5OutputRows(list) ==
    [i \in 1..Len(list) |-> [interface |-> list[i], status |-> OutputStatus(list[i])]]
CompleteRows(list) ==
    [i \in 1..Len(list) |-> [interface |-> list[i], status |-> Classification(list[i])]]

----------------------------------------------------------------------------
(* The input texts *)

\* "5 minute input rate 8000 bits/sec, 150000 packets/sec, 5 minute output rate
\*  8000 bits/sec, 120000 packets/sec": two statistics on one line
BothRatesLine == InputRateLine(150000) \o <<Lit("text")>> \o OutputRateLine(120000)
\* "5 minute input rate unknown, 5 minute output rate 8000 bits/sec, 7 packets/sec"
DanglingRateLine == <<Lit("in_rate"), Lit("text")>> \o OutputRateLine(7)
\* "Description, uplink to Gi0/2 is up": an interface name that is not at the start
NoteLine == <<Lit("text"), Tok("hdr", 2)>>
\* "packets/secGi0/1 is up": the header of the interface "packets/secGi0/1"
GluedHeaderLine == <<Lit("pps"), Tok("hdr", 1)>>

LineSet ==
    {HeaderLine(1), HeaderLine(2),
     InputRateLine(150000), OutputRateLine(100000),
     PacketsInputLine(1000, 5), PacketsOutputLine(2000, 4),
     InputErrorsLine(3, 2, 1, 6, 7, 8), OutputErrorsLine(3, 2),
     BothRatesLine, DanglingRateLine, NoteLine, GluedHeaderLine}

ShortTexts == UNION {[1..n -> LineSet] : n \in 0..MaxLines}

\* the lines that follow the header in a block of each kind
BlockBody(kind) ==
    CASE kind = "full" ->
           <<InputRateLine(150000), OutputRateLine(120000),
             PacketsInputLine(1000, 5), InputErrorsLine(3, 2, 1, 6, 7, 8),
             PacketsOutputLine(2000, 4), OutputErrorsLine(3, 2)>>
      [] kind = "at_threshold" ->
           <<InputRateLine(20000), OutputRateLine(100000),
             PacketsInputLine(2000, 0), InputErrorsLine(1, 0, 0, 0, 0, 0)>>
      [] kind = "half_half" ->
           <<InputRateLine(50000), OutputRateLine(50000),
             PacketsInputLine(1000, 5), InputErrorsLine(3, 2, 1, 6, 7, 8)>>
      [] kind = "below_threshold" ->
           <<InputRateLine(99999), PacketsInputLine(1000, 5),
             PacketsOutputLine(2000, 4)>>
      [] kind = "no_packets" ->
           <<InputRateLine(150000), InputErrorsLine(3, 2, 1, 6, 7, 8),
             OutputErrorsLine(3, 2)>>
      [] kind = "output_only" ->
           <<OutputRateLine(150000), PacketsOutputLine(2000, 4),
             InputErrorsLine(3, 2, 1, 6, 7, 8), OutputErrorsLine(3, 2)>>
      [] kind = "input_only" ->
           <<InputRateLine(150000), PacketsInputLine(4000, 1),
             OutputErrorsLine(3, 2)>>

BlockKinds == {"full", "at_threshold", "half_half", "below_threshold",
               "no_packets", "output_only", "input_only"}

Block(name, kind) == <<HeaderLine(name)>> \o BlockBody(kind)

RECURSIVE Concat(_)
Concat(blocks) ==
    IF blocks = <<>> THEN <<>> ELSE Head(blocks) \o Concat(Tail(blocks))

\* blocks of any kinds for interfaces 1, 2, ...; the last one may be a block of
\* interface 1 again
BlockChoices == (UNION {[1..n -> BlockKinds] : n \in 1..MaxBlocks}) \X BOOLEAN

BlockText(c) ==
    Concat([i \in 1..Len(c[1]) |->
              Block(IF c[2] /\ i = Len(c[1]) THEN 1 ELSE i, c[1][i])])

----------------------------------------------------------------------------
(* main and parse_interface_data *)

Init ==
    /\ file \in {"ok", "missing", "unreadable"}
    /\ IF file = "ok"
       THEN \/ lines \in ShortTexts
            \/ \E c \in BlockChoices : lines = BlockText(c)
       ELSE lines = <<>>
    /\ pc = "open"
    /\ idx = 0
    /\ current_interface = None
    /\ interface_stats = <<>>
    /\ fidx = 0
    /\ interfaces = <<>>
    /\ exc = "none"
    /\ main_interfaces = <<>>
    /\ called = <<>>
    /\ top_10 = <<>>
    /\ top_5_output = <<>>
    /\ all_sorted = <<>>
    /\ totals = NoTotals

\* the list as built when the exception was raised
ExceptReturnPartial == interfaces

\* what `return []` of an except clause returns
ExceptReturn == <<>>

\* with open(filename) as file: lines = file.readlines()
Open ==
    /\ pc = "open"
    /\ file = "ok"
    /\ pc' = "scan"
    /\ idx' = 1
    /\ UNCHANGED <<file, lines, current_interface, interface_stats, fidx,
                   interfaces, exc, main_interfaces, called, view_vars>>

\* open() raises FileNotFoundError, or open()/readlines() raise another
\* exception (PermissionError, UnicodeDecodeError): the matching except clause
OpenFails ==
    /\ pc = "open"
    /\ file # "ok"
    /\ exc' = (IF file = "missing" THEN "FileNotFoundError" ELSE "Exception")
    /\ main_interfaces' = ExceptReturn
    /\ pc' = "returned"
    /\ UNCHANGED <<file, lines, parse_vars, called, view_vars>>

\* a line that matches the interface header: a fresh record under its name
ScanHeader ==
    /\ pc = "scan"
    /\ idx <= Len(lines)
    /\ interface_match(lines[idx]) # NoMatch
    /\ current_interface' = interface_match(lines[idx])[1]
    /\ interface_stats' =
          DictSet(interface_stats, current_interface',
                  HeaderRecord(interface_stats, current_interface'))
    /\ idx' = idx + 1
    /\ UNCHANGED <<file, lines, pc, fidx, interfaces, exc, main_interfaces,
                   called, view_vars>>

\* any other line: with a current interface, the first pattern that matches
\* updates its record; otherwise nothing happens
ScanField ==
    /\ pc = "scan"
    /\ idx <= Len(lines)
    /\ interface_match(lines[idx]) = NoMatch
    /\ interface_stats' =
          IF current_interface # None /\ current_interface \in DictKeys(interface_stats)
          THEN DictSet(interface_stats, current_interface,
                       ApplyField(DictGet(interface_stats, current_interface),
                                  lines[idx]))
          ELSE interface_stats
    /\ idx' = idx + 1
    /\ UNCHANGED <<file, lines, pc, current_interface, fidx, interfaces, exc,
                   main_interfaces, called, view_vars>>

\* the first loop is over
ScanEnd ==
    /\ pc = "scan"
    /\ idx > Len(lines)
    /\ pc' = "filter"
    /\ fidx' = 1
    /\ UNCHANGED <<file, lines, idx, current_interface, interface_stats,
                   interfaces, exc, main_interfaces, called, view_vars>>

\* one turn of the second loop: skip the record, or append its InterfaceData
FilterStep ==
    /\ pc = "filter"
    /\ fidx <= Len(interface_stats)
    /\ interfaces' =
          IF total_packets(interface_stats[fidx]) = 0 THEN interfaces
          ELSE IF max_rate(interface_stats[fidx]) < RateThreshold THEN interfaces
          ELSE Append(interfaces, MakeInterfaceData(interface_stats[fidx]))
    /\ fidx' = fidx + 1
    /\ UNCHANGED <<file, lines, pc, idx, current_interface, interface_stats,
                   exc, main_interfaces, called, view_vars>>

\* return interfaces
Return ==
    /\ pc = "filter"
    /\ fidx > Len(interface_stats)
    /\ main_interfaces' = interfaces
    /\ pc' = "returned"
    /\ UNCHANGED <<file, lines, parse_vars, exc, called, view_vars>>

\* a statement of either loop raises (MemoryError, OverflowError of a float
\* division, ...): except Exception
Raise ==
    /\ pc \in {"scan", "filter"}
    /\ exc' = "Exception"
    /\ main_interfaces' = ExceptReturn
    /\ pc' = "returned"
    /\ UNCHANGED <<file, lines, parse_vars, called, view_vars>>

----------------------------------------------------------------------------
(* main and the report views: the actions *)

\* print_top_10_analysis(interfaces)
PrintTop10 ==
    /\ pc = "top10"
    /\ called' = Append(called, "top10")
    /\ top_10' = IF main_interfaces = <<>> THEN <<>>
                 ELSE Top10Rows(Top10(main_interfaces))
    /\ main_interfaces' = ListAfterView(main_interfaces)
    /\ pc' = "top5"
    /\ UNCHANGED <<file, lines, parse_vars, exc, top_5_output, all_sorted, totals>>

\* print_top_5_output_errors(interfaces)
PrintTop5Output ==
    /\ pc = "top5"
    /\ called' = Append(called, "top5")
    /\ top_5_output' = Top5OutputRows(Top5Output(main_interfaces))
    /\ main_interfaces' = ListAfterView(main_interfaces)
    /\ pc' = "complete"
    /\ UNCHANGED <<file, lines, parse_vars, exc, top_10, all_sorted, totals>>

\* print_complete_analysis(interfaces)
PrintComplete ==
    /\ pc = "complete"
    /\ called' = Append(called, "complete")
    /\ all_sorted' = IF main_interfaces = <<>> THEN <<>>
                     ELSE CompleteRows(AllSorted(main_interfaces))
    /\ totals' = IF main_interfaces = <<>> THEN totals
                 ELSE NetworkTotals(main_interfaces)
    /\ main_interfaces' = ListAfterView(main_interfaces)
    /\ pc' = "end"
    /\ UNCHANGED <<file, lines, parse_vars, exc, top_10, top_5_output>>

\* main: if interfaces: ... else: print("No interface data ...")
MainBranch ==
    /\ pc = "returned"
    /\ pc' = IF main_interfaces # <<>> THEN "top10" ELSE "end"
    /\ UNCHANGED <<file, lines, parse_vars, exc, main_interfaces, called, view_vars>>

\* main: print("ANALYSIS COMPLETE")
MainEnd ==
    /\ pc = "end"
    /\ pc' = "done"
    /\ UNCHANGED <<file, lines, parse_vars, exc, main_interfaces, called, view_vars>>

Next ==
    \/ Open
    \/ OpenFails
    \/ ScanHeader
    \/ ScanField
    \/ ScanEnd
    \/ FilterStep
    \/ Return
    \/ Raise
    \/ MainBranch
    \/ PrintTop10
    \/ PrintTop5Output
    \/ PrintComplete
    \/ MainEnd

Spec == Init /\ [][Next]_vars

----------------------------------------------------------------------------
(* Vocabulary of the properties of the scan *)

\* the six field patterns, in the order the loop body tries them
Patterns == 1..6

Match(line, p) ==
    CASE p = 1 -> input_rate_match(line)
      [] p = 2 -> output_rate_match(line)
      [] p = 3 -> input_packets_match(line)
      [] p = 4 -> output_packets_match(line)
      [] p = 5 -> error_match(line)
      [] p = 6 -> output_error_match(line)

\* the fields a pattern writes, in the order of its groups
FieldsOf(p) ==
    CASE p = 1 -> <<"input_rate">>
      [] p = 2 -> <<"output_rate">>
      [] p = 3 -> <<"input_packets", "input_drops">>
      [] p = 4 -> <<"output_packets", "output_drops">>
      [] p = 5 -> <<"input_errors", "crc_errors", "frame_errors",
                    "overrun_errors", "ignored_errors", "abort_errors">>
      [] p = 6 -> <<"output_errors", "underruns">>

Range(seq) == {seq[i] : i \in 1..Len(seq)}
Counters == UNION {Range(FieldsOf(p)) : p \in Patterns}

Matching(line) == {p \in Patterns : Match(line, p) # NoMatch}
IsHeader(line) == interface_match(line) # NoMatch

\* the statistics whose label text a line carries
Family(k) ==
    CASE k = "in_rate" -> 1
      [] k = "out_rate" -> 2
      [] k \in {"pkts_in", "drops_in"} -> 3
      [] k \in {"pkts_out", "drops_out"} -> 4
      [] k \in {"in_err", "crc", "frame", "overrun", "ignored", "abort"} -> 5
      [] k \in {"out_err", "underruns"} -> 6
      [] OTHER -> 0
Families(line) == {Family(line[i].k) : i \in 1..Len(line)} \ {0}

\* a step of the first loop over a line that is not a header
FieldStep == pc = "scan" /\ pc' = "scan" /\ idx <= Len(lines) /\ ~IsHeader(lines[idx])
\* a step of the first loop over a header line
HeaderStep == pc = "scan" /\ pc' = "scan" /\ idx <= Len(lines) /\ IsHeader(lines[idx])

\* the lines scanned so far that follow the last header of name, up to the next header
LastHeader(name) ==
    LET H == {i \in 1..(idx - 1) :
                IsHeader(lines[i]) /\ interface_match(lines[i])[1] = name}
    IN CHOOSE i \in H : \A j \in H : j <= i
LastBlock(name) ==
    {i \in (LastHeader(name) + 1)..(idx - 1) :
        \A j \in (LastHeader(name) + 1)..i : ~IsHeader(lines[j])}

ScanOver == pc = "filter" /\ fidx = 1

----------------------------------------------------------------------------
(* C8: a header line scanned for a name replaces the record of that name   *)
(* by a fresh one with every counter 0 and makes the name current; the     *)
(* mapping never holds two records for one name; and at the end of the     *)
(* scan every non-zero counter of a record is a value captured from a      *)
(* field line of the last block of its name (the lines after the last      *)
(* header of that name, up to the next header).                            *)

C8_HeaderResets ==
    HeaderStep =>
        LET name == interface_match(lines[idx])[1]
        IN /\ current_interface' = name
           /\ name \in DictKeys(interface_stats')
           /\ \A f \in Counters : DictGet(interface_stats', name)[f] = 0

C8_UniqueNames ==
    \A i, j \in 1..Len(interface_stats) :
        interface_stats[i].name = interface_stats[j].name => i = j

C8_OnlyLastBlock ==
    ScanOver =>
        \A k \in 1..Len(interface_stats) :
            LET data == interface_stats[k]
                block == LastBlock(data.name)
            IN \A p \in Patterns : \A g \in 1..Len(FieldsOf(p)) :
                   \/ data[FieldsOf(p)[g]] = 0
                   \/ \E i \in block :
                        /\ Match(lines[i], p) # NoMatch
                        /\ Match(lines[i], p)[g] = data[FieldsOf(p)[g]]

C8_LastHeaderWins ==
    /\ [][C8_HeaderResets]_vars
    /\ [](C8_UniqueNames /\ C8_OnlyLastBlock)

\* a second header of a name was scanned after a field line of its first block
\* had set a counter, and the scan is over
C8_Witness ==
    /\ ScanOver
    /\ \E k \in 1..Len(interface_stats) :
        LET name == interface_stats[k].name
        IN \E h \in 1..(LastHeader(name) - 1) :
             /\ IsHeader(lines[h]) /\ interface_match(lines[h])[1] = name
             /\ ~IsHeader(lines[h + 1])
             /\ h + 1 < LastHeader(name)
             /\ Match(lines[h + 1], 1) # NoMatch
             /\ interface_stats[k].input_rate = 0

----------------------------------------------------------------------------
(* C9 as stated: for every line the loop tries the field patterns on, at   *)
(* most one of the six patterns matches.                                   *)

C9_MutuallyExclusive ==
    (pc = "scan" /\ idx <= Len(lines) /\ ~IsHeader(lines[idx])) =>
        Cardinality(Matching(lines[idx])) <= 1

(* C9 amended: a line that carries the label text of at most one statistic *)
(* matches at most one pattern; a line that carries two (both rate texts)  *)
(* can match two, and then the first matching pattern in the order input   *)
(* rate, output rate, packets input, packets output, input errors, output  *)
(* errors is the only one applied: its fields take its captured values and *)
(* every other field keeps its value.                                      *)

C9_FirstMatchApplied ==
    (FieldStep /\ current_interface # None /\ Matching(lines[idx]) # {}) =>
        LET line == lines[idx]
            p == Min(Matching(line))
            before == DictGet(interface_stats, current_interface)
            after == DictGet(interface_stats', current_interface)
        IN /\ \A g \in 1..Len(FieldsOf(p)) : after[FieldsOf(p)[g]] = Match(line, p)[g]
           /\ \A f \in Counters \ Range(FieldsOf(p)) : after[f] = before[f]

C9_SingleStatisticExclusive ==
    (pc = "scan" /\ idx <= Len(lines) /\ ~IsHeader(lines[idx])
       /\ Cardinality(Families(lines[idx])) <= 1)
        => Cardinality(Matching(lines[idx])) <= 1

C9_FirstMatchWins ==
    /\ [][C9_FirstMatchApplied]_vars
    /\ []C9_SingleStatisticExclusive

\* a line matching both rate patterns was scanned for a current interface:
\* only its input rate was taken
C9_Witness ==
    /\ pc = "scan"
    /\ idx > 1
    /\ current_interface # None
    /\ {1, 2} \subseteq Matching(lines[idx - 1])
    /\ DictGet(interface_stats, current_interface).input_rate
          = Match(lines[idx - 1], 1)[1]
    /\ DictGet(interface_stats, current_interface).output_rate = 0

----------------------------------------------------------------------------
(* C10: scanning a line that is not a header changes at most the fields of *)
(* one pattern the line matches, in the record of the current interface    *)
(* only: the names of the mapping, their order, the current interface and  *)
(* every other record stay as they are; with no current interface, or with *)
(* no matching pattern, nothing changes.  And at the end of the scan a     *)
(* counter is 0 when no line of the last block of its name matches the     *)
(* counter's pattern.                                                      *)

C10_Frame ==
    FieldStep =>
        /\ current_interface' = current_interface
        /\ Len(interface_stats') = Len(interface_stats)
        /\ \A k \in 1..Len(interface_stats) :
            IF interface_stats[k].name # current_interface
               \/ Matching(lines[idx]) = {}
            THEN interface_stats'[k] = interface_stats[k]
            ELSE /\ interface_stats'[k].name = interface_stats[k].name
                 /\ \E p \in Matching(lines[idx]) :
                      \A f \in Counters \ Range(FieldsOf(p)) :
                          interface_stats'[k][f] = interface_stats[k][f]

C10_AbsentIsZero ==
    ScanOver =>
        \A k \in 1..Len(interface_stats) :
            LET block == LastBlock(interface_stats[k].name)
            IN \A p \in Patterns :
                   (\A i \in block : Match(lines[i], p) = NoMatch)
                       => \A f \in Range(FieldsOf(p)) : interface_stats[k][f] = 0

C10_FieldLineFrame ==
    /\ [][C10_Frame]_vars
    /\ []C10_AbsentIsZero

\* a field line was scanned into a record that already held a counter of another
\* pattern, beside the record of another interface that holds a counter too
C10_Witness ==
    /\ pc = "scan"
    /\ idx > 2
    /\ ~IsHeader(lines[idx - 1])
    /\ Matching(lines[idx - 1]) # {}
    /\ Len(interface_stats) = 2
    /\ current_interface = interface_stats[2].name
    /\ interface_stats[1].input_rate > 0
    /\ interface_stats[2].input_rate > 0
    /\ interface_stats[2].input_packets > 0
    /\ interface_stats[2].output_errors = 0

----------------------------------------------------------------------------
(* Vocabulary of the properties of the result *)

\* parse_interface_data returned through `return interfaces`
Returned == pc = "returned" /\ exc = "none"

ResultNames(list) == {list[i].name : i \in 1..Len(list)}

\* both inclusion filters, on the raw counters of a name
Included(data) ==
    /\ data.input_packets + data.output_packets > 0
    /\ (data.input_rate >= 100000 \/ data.output_rate >= 100000)

\* the float r is the value of a * 100 / b
IsPct(r, a, b) == r.d > 0 /\ r.n * b = a * 100 * r.d
IsZero(r) == r.d > 0 /\ r.n = 0

----------------------------------------------------------------------------
(* C1: when parse_interface_data returns its list, the list holds a record *)
(* for a name exactly when the final raw counters of that name have        *)
(* input_packets + output_packets > 0 and max(input_rate, output_rate) >=  *)
(* 100000 (the larger rate, not their sum; exactly 100000 is included; no  *)
(* packets means excluded whatever the error counters are), and it holds   *)
(* one record per such name.                                               *)

C1_InclusionFilter ==
    Returned =>
        /\ \A name \in DictKeys(interface_stats) \cup ResultNames(main_interfaces) :
             name \in ResultNames(main_interfaces)
               <=> /\ name \in DictKeys(interface_stats)
                   /\ Included(DictGet(interface_stats, name))
        /\ \A i, j \in 1..Len(main_interfaces) :
             main_interfaces[i].name = main_interfaces[j].name => i = j

\* an interface with both rates 50000 and packets is left out, beside one whose
\* larger rate is exactly 100000 and is kept
C1_Witness ==
    /\ Returned
    /\ \E a, b \in 1..Len(interface_stats) :
         /\ interface_stats[a].input_rate = 50000
         /\ interface_stats[a].output_rate = 50000
         /\ interface_stats[a].input_packets > 0
         /\ interface_stats[a].name \notin ResultNames(main_interfaces)
         /\ interface_stats[b].input_rate < 100000
         /\ interface_stats[b].output_rate = 100000
         /\ interface_stats[b].name \in ResultNames(main_interfaces)

----------------------------------------------------------------------------
(* C2: every record parse_interface_data returns has error_crc_ratio =     *)
(* (input_errors + crc_errors) * 100 / input_packets, error_ratio =        *)
(* input_errors * 100 / input_packets and crc_ratio = crc_errors * 100 /   *)
(* input_packets when input_packets > 0, all three 0 when input_packets =  *)
(* 0, and output_error_ratio = output_errors * 100 / output_packets when   *)
(* output_packets > 0 and 0 when output_packets = 0.                       *)

C2_Ratios ==
    Returned =>
        \A i \in 1..Len(main_interfaces) :
            LET r == main_interfaces[i]
            IN /\ IF r.input_packets > 0
                  THEN /\ IsPct(r.error_crc_ratio,
                                r.input_errors + r.crc_errors, r.input_packets)
                       /\ IsPct(r.error_ratio, r.input_errors, r.input_packets)
                       /\ IsPct(r.crc_ratio, r.crc_errors, r.input_packets)
                  ELSE /\ IsZero(r.error_crc_ratio)
                       /\ IsZero(r.error_ratio)
                       /\ IsZero(r.crc_ratio)
               /\ IF r.output_packets > 0
                  THEN IsPct(r.output_error_ratio, r.output_errors, r.output_packets)
                  ELSE IsZero(r.output_error_ratio)

\* a returned record that saw an output-errors line and no output-packets line,
\* beside one with input errors and no input packets
C2_Witness ==
    /\ Returned
    /\ \E i, j \in 1..Len(main_interfaces) :
         /\ main_interfaces[i].output_errors > 0
         /\ main_interfaces[i].output_packets = 0
         /\ main_interfaces[i].input_packets > 0
         /\ main_interfaces[j].input_errors > 0
         /\ main_interfaces[j].input_packets = 0
         /\ main_interfaces[j].output_errors > 0

----------------------------------------------------------------------------
(* C6: each network-wide total is the sum of its field over the interfaces *)
(* of the mapping that pass both inclusion filters, and                    *)
(* overall_error_crc_ratio is (sum input_errors + sum crc_errors) * 100 /  *)
(* sum input_packets when that sum is > 0, and 0 when it is 0.             *)

RECURSIVE SumIncluded(_, _)
SumIncluded(dict, field) ==
    IF dict = <<>> THEN 0
    ELSE (IF Included(Head(dict)) THEN Head(dict)[field] ELSE 0)
         + SumIncluded(Tail(dict), field)

C6_Totals ==
    (exc = "none" /\ totals.computed) =>
        /\ totals.total_input_packets = SumIncluded(interface_stats, "input_packets")
        /\ totals.total_output_packets = SumIncluded(interface_stats, "output_packets")
        /\ totals.total_input_errors = SumIncluded(interface_stats, "input_errors")
        /\ totals.total_crc_errors = SumIncluded(interface_stats, "crc_errors")
        /\ totals.total_output_errors = SumIncluded(interface_stats, "output_errors")
        /\ totals.total_input_drops = SumIncluded(interface_stats, "input_drops")
        /\ totals.total_output_drops = SumIncluded(interface_stats, "output_drops")
        /\ IF SumIncluded(interface_stats, "input_packets") > 0
           THEN IsPct(totals.overall_error_crc_ratio,
                      SumIncluded(interface_stats, "input_errors")
                        + SumIncluded(interface_stats, "crc_errors"),
                      SumIncluded(interface_stats, "input_packets"))
           ELSE IsZero(totals.overall_error_crc_ratio)

\* totals over two surviving interfaces with different counters, beside a third
\* interface with packets and errors that the rate filter dropped
C6_Witness ==
    /\ totals.computed
    /\ Len(main_interfaces) = 2
    /\ \E k \in 1..Len(interface_stats) :
         /\ ~Included(interface_stats[k])
         /\ interface_stats[k].input_packets > 0
         /\ interface_stats[k].input_errors > 0
    /\ main_interfaces[1].input_packets > 0
    /\ main_interfaces[2].input_packets > main_interfaces[1].input_packets
    /\ main_interfaces[1].input_errors > main_interfaces[2].input_errors
    /\ main_interfaces[2].input_errors > 0

----------------------------------------------------------------------------
(* C7: when the file is missing, or another exception is raised while the  *)
(* file is read or processed, parse_interface_data returns the empty list, *)
(* not the records built before the failure, and main goes on to its end   *)
(* without calling a report view.                                          *)

C7_ExceptionGivesEmpty ==
    exc # "none" =>
        /\ main_interfaces = <<>>
        /\ called = <<>>
        /\ top_10 = <<>> /\ top_5_output = <<>> /\ all_sorted = <<>>
        /\ ~totals.computed
        /\ pc \in {"returned", "end", "done"}
        /\ (pc = "returned" => ENABLED MainBranch)
        /\ (pc = "end" => ENABLED MainEnd)

\* an exception in the second loop, after a record had been appended, and main
\* has finished
C7_Witness ==
    /\ exc = "Exception"
    /\ file = "ok"
    /\ Len(interfaces) >= 1
    /\ fidx <= Len(interface_stats)
    /\ pc = "done"

----------------------------------------------------------------------------
(* The report views as functions of a list of records: the lists           *)

\* ShortLists: every list of at most MaxShort records over ShortKinds
MaxShort == 2
\* LongLists: a run of at most MaxPeriod records over LongKinds, repeated up to
\* MaxRecords records
MaxPeriod == 3
MaxRecords == 11

\* the record of an interface that passed both filters, from its counters
\* <<input_packets, input_errors, crc_errors, output_packets, output_errors>>
RecordOf(i, c) ==
    MakeInterfaceData([NewStats(<<Tok("hdr", i)>>) EXCEPT
        !.input_rate = 150000, !.input_packets = c[1], !.input_errors = c[2],
        !.crc_errors = c[3], !.output_packets = c[4], !.output_errors = c[5]])

\* error+CRC ratios 0, 0 (errors, no input packets), 0.001, 0.002, 0.01, 0.02,
\* 0.1, 0.2, 1.0, 2.0; output error ratios 0, 0.01, 0.02, 0.1, 0.2, 1.0, 2.0
ShortKinds ==
    {<<100000, 0, 0, 1000, 0>>, <<0, 3, 0, 1000, 1>>,
     <<100000, 1, 0, 10000, 1>>, <<100000, 1, 1, 10000, 2>>,
     <<10000, 1, 0, 100, 1>>, <<10000, 1, 1, 100, 2>>,
     <<1000, 0, 1, 1000, 2>>, <<1000, 1, 1, 0, 5>>,
     <<100, 1, 0, 0, 0>>, <<100, 1, 1, 0, 0>>}

\* ratios 0 / 0, 0.1 / 0.2, 0.2 / 0.1, and 0.2 again (as 400 / 2000) / 0
LongKinds ==
    {<<1000, 0, 0, 1000, 0>>, <<1000, 1, 0, 1000, 2>>,
     <<1000, 1, 1, 1000, 1>>, <<2000, 4, 0, 0, 0>>}

ShortLists ==
    {[i \in 1..Len(cs) |-> RecordOf(i, cs[i])] :
        cs \in UNION {[1..n -> ShortKinds] : n \in 0..MaxShort}}

LongLists ==
    {[i \in 1..n |-> RecordOf(i, cs[((i - 1) % Len(cs)) + 1])] :
        cs \in UNION {[1..m -> LongKinds] : m \in 1..MaxPeriod},
        n \in 1..MaxRecords}

ViewInputs == ShortLists \cup LongLists

\* the three views, called in main's order on a list of records
InitViews ==
    /\ file = "ok"
    /\ lines = <<>>
    /\ pc = "top10"
    /\ idx = 0
    /\ current_interface = None
    /\ interface_stats = <<>>
    /\ fidx = 0
    /\ interfaces = <<>>
    /\ exc = "none"
    /\ main_interfaces \in ViewInputs
    /\ called = <<>>
    /\ top_10 = <<>>
    /\ top_5_output = <<>>
    /\ all_sorted = <<>>
    /\ totals = NoTotals

NextViews ==
    \/ PrintTop10
    \/ PrintTop5Output
    \/ PrintComplete

SpecViews == InitViews /\ [][NextViews]_vars

----------------------------------------------------------------------------
(* Vocabulary of the properties of the views *)

\* the ratio e * 100 / p (0 when p = 0) is greater than 1 / k
Above(e, p, k) == p > 0 /\ e * 100 * k > p
\* the ratio e * 100 / p is exactly 1 / k
Exactly(e, p, k) == p > 0 /\ e * 100 * k = p

ErrCrc(r) == r.input_errors + r.crc_errors

Tier(e, p, k) ==
    IF Above(e, p, k) THEN "CRITICAL"
    ELSE IF Above(e, p, 10 * k) THEN "HIGH"
    ELSE IF Above(e, p, 100 * k) THEN "MEDIUM"
    ELSE "LOW"

Top10Done == pc \in {"top5", "complete", "end"} /\ main_interfaces # <<>>
Top5Done == pc \in {"complete", "end"}
CompleteDone == pc = "end" /\ main_interfaces # <<>>

C3_Top10Tiers ==
    Top10Done =>
        \A i \in 1..Len(top_10) :
            LET r == top_10[i].interface
            IN top_10[i].status = Tier(ErrCrc(r), r.input_packets, 1)

C3_Top5Tiers ==
    Top5Done =>
        \A i \in 1..Len(top_5_output) :
            LET r == top_5_output[i].interface
            IN top_5_output[i].status = Tier(r.output_errors, r.output_packets, 1)

C3_CompleteTiers ==
    CompleteDone =>
        \A i \in 1..Len(all_sorted) :
            LET r == all_sorted[i].interface
                e == ErrCrc(r)
                p == r.input_packets
            IN /\ all_sorted[i].status =
                    (IF Above(e, p, 10) THEN "CRITICAL"
                     ELSE IF Above(e, p, 100) THEN "HIGH"
                     ELSE IF Above(e, p, 1000) THEN "MEDIUM"
                     ELSE IF e > 0 THEN "LOW"
                     ELSE "GOOD")
               /\ (all_sorted[i].status = "GOOD" <=> e = 0)
               /\ (e > 0 /\ p = 0 => all_sorted[i].status = "LOW")

\* the boundary rows of the top views, with the tier C3 gives a ratio of 0.1
C3_TopBoundaries(tierOfTenth) ==
    /\ Top10Done =>
         \A i \in 1..Len(top_10) :
            LET r == top_10[i].interface
            IN /\ Exactly(ErrCrc(r), r.input_packets, 1) => top_10[i].status = "HIGH"
               /\ Exactly(ErrCrc(r), r.input_packets, 10)
                    => top_10[i].status = tierOfTenth
               /\ Exactly(ErrCrc(r), r.input_packets, 100) => top_10[i].status = "LOW"
    /\ Top5Done =>
         \A i \in 1..Len(top_5_output) :
            LET r == top_5_output[i].interface
            IN /\ Exactly(r.output_errors, r.output_packets, 1)
                    => top_5_output[i].status = "HIGH"
               /\ Exactly(r.output_errors, r.output_packets, 10)
                    => top_5_output[i].status = tierOfTenth
               /\ Exactly(r.output_errors, r.output_packets, 100)
                    => top_5_output[i].status = "LOW"

(* C3 as stated: in the top-10 and top-5 views ratio > 1.0 is CRITICAL,    *)
(* else > 0.1 HIGH, else > 0.01 MEDIUM, else LOW, where a ratio of exactly *)
(* 0.1 is HIGH, exactly 1.0 HIGH and exactly 0.01 LOW; in the complete     *)
(* view > 0.1 is CRITICAL, else > 0.01 HIGH, else > 0.001 MEDIUM, else LOW *)
(* with errors and GOOD without.                                           *)

C3_TiersAsStated ==
    /\ C3_Top10Tiers /\ C3_Top5Tiers /\ C3_CompleteTiers
    /\ C3_TopBoundaries("HIGH")

(* C3 amended: the same, except that a ratio of exactly 0.1 is MEDIUM in   *)
(* the top-10 and top-5 views (it is not > 0.1); it is HIGH in the         *)
(* complete view.                                                          *)

C3_Tiers ==
    /\ C3_Top10Tiers /\ C3_Top5Tiers /\ C3_CompleteTiers
    /\ C3_TopBoundaries("MEDIUM")
    /\ CompleteDone =>
         \A i \in 1..Len(all_sorted) :
            Exactly(ErrCrc(all_sorted[i].interface),
                    all_sorted[i].interface.input_packets, 10)
                => all_sorted[i].status = "HIGH"

\* a record with error+CRC ratio exactly 0.1 is MEDIUM in the top 10 and HIGH in
\* the complete view, beside a record with errors and no input packets (LOW), and
\* a row of the top 5 with output error ratio exactly 0.1 is MEDIUM
C3_Witness ==
    /\ CompleteDone
    /\ \E i \in 1..Len(top_10) :
         /\ Exactly(ErrCrc(top_10[i].interface), top_10[i].interface.input_packets, 10)
         /\ top_10[i].status = "MEDIUM"
    /\ \E i \in 1..Len(all_sorted) :
         /\ Exactly(ErrCrc(all_sorted[i].interface),
                    all_sorted[i].interface.input_packets, 10)
         /\ all_sorted[i].status = "HIGH"
    /\ \E i \in 1..Len(all_sorted) :
         /\ ErrCrc(all_sorted[i].interface) > 0
         /\ all_sorted[i].interface.input_packets = 0
         /\ all_sorted[i].status = "LOW"
    /\ \E i \in 1..Len(top_5_output) :
         /\ Exactly(top_5_output[i].interface.output_errors,
                    top_5_output[i].interface.output_packets, 10)
         /\ top_5_output[i].status = "MEDIUM"

----------------------------------------------------------------------------
(* C4: the complete view is a permutation of the list it is given, every   *)
(* adjacent pair (a, b) of it has a.error_crc_ratio >= b.error_crc_ratio,  *)
(* records with equal error_crc_ratio keep the order they have in the      *)
(* list, and the list itself is left as it was.                            *)

\* where the record of a row stands in list (names are unique in a list)
PlaceIn(list, r) == CHOOSE i \in 1..Len(list) : list[i] = r

StableDescending(rows, list, field) ==
    /\ Len(rows) = Len(list)
    /\ \A i \in 1..Len(rows) : \E k \in 1..Len(list) : list[k] = rows[i].interface
    /\ \A i, j \in 1..Len(rows) : rows[i].interface = rows[j].interface => i = j
    /\ \A i \in 1..(Len(rows) - 1) :
         ~RatGt(rows[i + 1].interface[field], rows[i].interface[field])
    /\ \A i, j \in 1..Len(rows) :
         (i < j /\ RatEq(rows[i].interface[field], rows[j].interface[field]))
            => PlaceIn(list, rows[i].interface) < PlaceIn(list, rows[j].interface)

C4_CompleteStep ==
    (pc = "complete" /\ pc' = "end" /\ main_interfaces # <<>>) =>
        /\ main_interfaces' = main_interfaces
        /\ StableDescending(all_sorted', main_interfaces, "error_crc_ratio")

C4_StableSort == [][C4_CompleteStep]_vars

\* the complete view of a list that was not in order: a record, then two records
\* with a larger ratio, equal but written as different fractions, then another
\* record with a larger ratio than the first; the two stay next to each other
C4_Witness ==
    /\ CompleteDone
    /\ \E a, b, c, d \in 1..Len(main_interfaces) :
         /\ a < b /\ b < c /\ c < d
         /\ RatGt(main_interfaces[b].error_crc_ratio, main_interfaces[a].error_crc_ratio)
         /\ RatEq(main_interfaces[b].error_crc_ratio, main_interfaces[c].error_crc_ratio)
         /\ main_interfaces[b].error_crc_ratio # main_interfaces[c].error_crc_ratio
         /\ RatGt(main_interfaces[d].error_crc_ratio, main_interfaces[a].error_crc_ratio)
         /\ \E i \in 1..(Len(all_sorted) - 1) :
              /\ all_sorted[i].interface = main_interfaces[b]
              /\ all_sorted[i + 1].interface = main_interfaces[c]

----------------------------------------------------------------------------
(* C5: the top error+CRC view holds only records with error_crc_ratio > 0, *)
(* min(10, number of such records) of them, in descending order of the     *)
(* ratio, and no record with ratio > 0 that is left out has a larger ratio *)
(* than one that is kept; the top output-error view likewise with          *)
(* output_error_ratio and 5.  A record with ratio 0 is in neither.         *)

Positive(list, field) == {k \in 1..Len(list) : RatGt(list[k][field], Zero)}

TopOf(rows, list, field, limit) ==
    /\ \A i \in 1..Len(rows) :
         /\ RatGt(rows[i].interface[field], Zero)
         /\ \E k \in 1..Len(list) : list[k] = rows[i].interface
    /\ \A i, j \in 1..Len(rows) : rows[i].interface = rows[j].interface => i = j
    /\ Len(rows) = (IF Cardinality(Positive(list, field)) < limit
                    THEN Cardinality(Positive(list, field)) ELSE limit)
    /\ \A i \in 1..(Len(rows) - 1) :
         ~RatGt(rows[i + 1].interface[field], rows[i].interface[field])
    /\ \A k \in Positive(list, field) :
         (\A i \in 1..Len(rows) : rows[i].interface # list[k])
            => \A i \in 1..Len(rows) :
                 ~RatGt(list[k][field], rows[i].interface[field])

C5_TopViews ==
    /\ Top10Done => TopOf(top_10, main_interfaces, "error_crc_ratio", 10)
    /\ Top5Done => TopOf(top_5_output, main_interfaces, "output_error_ratio", 5)

\* more than 10 records with an error+CRC ratio > 0, of two different ratios, more
\* than 5 of them with an output error ratio > 0 and some with 0: 10 rows in the
\* top 10 and 5 in the top 5, and a record with a ratio > 0 left out of each
C5_Witness ==
    /\ pc = "end"
    /\ Cardinality(Positive(main_interfaces, "error_crc_ratio")) > 10
    /\ Cardinality(Positive(main_interfaces, "output_error_ratio")) < Len(main_interfaces)
    /\ Len(top_10) = 10
    /\ RatGt(top_10[1].interface.error_crc_ratio, top_10[10].interface.error_crc_ratio)
    /\ Cardinality(Positive(main_interfaces, "output_error_ratio")) > 5
    /\ Len(top_5_output) = 5

====
